---- MODULE Spec2Model ----
(***************************************************************************)
(* Model of game/runner.py: the runner that starts the Evennia Server and  *)
(* Portal through twistd and hosts the threaded reload loop.               *)
(*                                                                         *)
(* The supervisor's main thread runs main() and then start_services();    *)
(* each monitored process has a waiter thread (server_waiter /             *)
(* portal_waiter) that calls Popen(argv).wait() and puts a message on the  *)
(* shared Queue.  The flag files, pid files and log files live in the      *)
(* file system and are shared with the launched processes.                 *)
(***************************************************************************)
EXTENDS Integers, Sequences, FiniteSets, TLC

\* ------------------------------------------------------------------------
\* Bounds of the model (not program constants)
\* ------------------------------------------------------------------------

\* Largest number of waiter threads the environment lets one name reach:
\* an incarnation that would be the (MaxLaunch+1)-th is never asked for.
MaxLaunch == 2

\* ------------------------------------------------------------------------
\* Program constants (runner.py:28-32, 53-55, 64)
\* ------------------------------------------------------------------------

SERVER_PIDFILE == "server.pid"
PORTAL_PIDFILE == "portal.pid"
SERVER_RESTART == "server.restart"
PORTAL_RESTART == "portal.restart"
SERVER_LOGFILE == "server.log"
PORTAL_LOGFILE == "portal.log"
HTTP_LOG_FILE == "http.log"

\* Python's None for scalars, and for the argv lists (None and [] are both
\* falsy in "if server_argv:", the only way the code looks at them).
None == "None"
NoneArgv == << >>

\* A path that os.path.exists() reports as missing.
Absent == "<absent>"

Names == {"server", "portal"}
Other(n) == IF n = "server" THEN "portal" ELSE "server"
RestartFile(n) == IF n = "server" THEN SERVER_RESTART ELSE PORTAL_RESTART
PidFile(n) == IF n = "server" THEN SERVER_PIDFILE ELSE PORTAL_PIDFILE
LogFile(n) == IF n = "server" THEN SERVER_LOGFILE ELSE PORTAL_LOGFILE
Message(n) == IF n = "server" THEN "server_stopped" ELSE "portal_stopped"

RestartFiles == {SERVER_RESTART, PORTAL_RESTART}
PidFiles == {SERVER_PIDFILE, PORTAL_PIDFILE}
Old(logfile) == logfile \o ".old"
LogFiles == {SERVER_LOGFILE, PORTAL_LOGFILE, HTTP_LOG_FILE}
LogPaths == LogFiles \cup {Old(f) : f \in LogFiles}

\* ------------------------------------------------------------------------
\* Inputs: command lines, exit codes, file contents found at startup
\* ------------------------------------------------------------------------

\* Positional arguments given to the runner.
ArgsInputs == {<< >>, <<"start">>, <<"stop">>}
\* The four store_true options of the OptionParser.
OptionsInputs == [noserver : BOOLEAN, noportal : BOOLEAN,
                  iserver : BOOLEAN, iportal : BOOLEAN]
\* Exit codes Popen(...).wait() hands back.
ExitCodes == {0, 1}
\* Contents a flag file may hold when the runner starts.
FlagInputs == {Absent, "True", "False", "True\n"}
\* Contents a pid file may hold when the runner starts.
PidInputs == {Absent, "", "4242"}
\* Platforms: os.name is 'nt' on Windows.
OsInputs == {"posix", "nt"}
\* The pid text twistd records for a process the runner launched.
NewPid == "777"

VARIABLES
    os_name,        \* os.name of the platform the runner runs on
    args,           \* positional command line arguments
    options,        \* parsed options
    restart,        \* flag files: content or Absent
    unwritable,     \* flag files open(..., 'w') fails on (IOError)
    pidfiles,       \* pid files: content or Absent
    logs,           \* log files and their .old siblings: content or Absent
    pc,             \* position of the supervisor's main thread
    exit_status,    \* exit status of the runner, -1 while it runs
    server_argv,    \* main's server_argv as handed to start_services
    portal_argv,    \* main's portal_argv as handed to start_services
    SERVER,         \* module global SERVER
    PORTAL,         \* module global PORTAL
    processes,      \* the Queue of (message, rc) tuples
    waiter,         \* per name: state of its current waiter thread
    daemon,         \* the portal started with a bare Popen (not waited on)
    launches,       \* per name: waiter threads started so far
    removed,        \* per name: "no", or how the loop gave the name up
    last,           \* what the latest iteration of the reload loop did
    call,           \* the latest direct call of a runner function
    written,        \* per flag file: what set_restart_mode last wrote
    clean_exits,    \* per name: exits with code 0 under a flag reading True
    events          \* per name: messages put, taken, and taken with rc 0
                    \* while the flag read True

vars == <<os_name, args, options, restart, unwritable, pidfiles, logs, pc, exit_status,
          server_argv, portal_argv, SERVER, PORTAL, processes, waiter, daemon,
          launches, removed, last, call, written, clean_exits, events>>

\* ------------------------------------------------------------------------
\* Functions of runner.py
\* ------------------------------------------------------------------------

\* Python's str() on a bool.
str(flag) == IF flag THEN "True" ELSE "False"

\* set_restart_mode: the flag files after open(restart_file,'w').write(str(flag)).
set_restart_mode(files, restart_file, flag) ==
    [files EXCEPT ![restart_file] = str(flag)]

\* Does open(restart_file, 'w') succeed?  It raises IOError otherwise.
CanWrite(restart_file) == restart_file \notin unwritable

\* get_restart_mode that takes everything but "False" for a yes.
get_restart_mode_Lenient(files, restart_file) ==
    IF files[restart_file] # Absent
    THEN files[restart_file] # "False"
    ELSE FALSE

\* get_restart_mode: True only for an existing file holding exactly "True".
get_restart_mode(files, restart_file) ==
    IF files[restart_file] # Absent
    THEN files[restart_file] = "True"
    ELSE FALSE

\* get_pid: the content of the pid file, None when the file is missing.
get_pid(files, pidfile) ==
    IF files[pidfile] # Absent THEN files[pidfile] ELSE None

\* Python truthiness of what get_pid returns ("if pid and ...").
Truthy(pid) == pid # None /\ pid # ""

\* Rotate whose rename does not replace an existing .old file.
Rotate_NoReplace(files, logfile) ==
    IF files[logfile] # Absent /\ files[Old(logfile)] = Absent
    THEN [files EXCEPT ![Old(logfile)] = files[logfile], ![logfile] = Absent]
    ELSE files

\* Rotate that removes the .old file before it asks whether the log exists.
Rotate_RemovesOldFirst(files, logfile) ==
    IF files[logfile] # Absent
    THEN [files EXCEPT ![Old(logfile)] = files[logfile], ![logfile] = Absent]
    ELSE [files EXCEPT ![Old(logfile)] = Absent]

\* One "if exists: (remove .old); rename" block of cycle_logfile.
Rotate(files, logfile) ==
    IF files[logfile] # Absent
    THEN [files EXCEPT ![Old(logfile)] = files[logfile], ![logfile] = Absent]
    ELSE files

\* cycle_logfile: rotates the given log, then always the HTTP log as well.
cycle_logfile(files, logfile) ==
    Rotate(Rotate(files, logfile), HTTP_LOG_FILE)

\* ------------------------------------------------------------------------
\* main(): option handling up to the call of start_services
\* ------------------------------------------------------------------------

\* The twistd executable: 'twistd', or 'twistd.bat' on Windows.
TWISTED_BINARY == IF os_name = "nt" THEN "twistd.bat" ELSE "twistd"

\* argv lists main builds before looking at the options (runner.py:222-230).
DefaultServerArgv ==
    <<TWISTED_BINARY, "--nodaemon", "--logfile", "--pidfile", "--python">>
DefaultPortalArgv ==
    <<TWISTED_BINARY, "--logfile", "--pidfile", "--python">>

\* Python's "del argv[-2]": the "Windows fixes" of main drop the --pidfile
\* option of an argv that is not None.
WindowsFix(argv) ==
    IF os_name = "nt" /\ argv # NoneArgv
    THEN [k \in 1..(Len(argv) - 1) |->
             IF k < Len(argv) - 1 THEN argv[k] ELSE argv[k + 1]]
    ELSE argv

\* Python's "del argv[i]" with a 0-based index i.
Del(argv, i) ==
    [k \in 1..(Len(argv) - 1) |-> IF k <= i THEN argv[k] ELSE argv[k + 1]]

\* main_server that leaves the flag file as it found it.
main_server_NoFlagWrite(opts, rfiles, pfiles, lfiles) ==
    LET pid == get_pid(pfiles, SERVER_PIDFILE)
        noserver == IF Truthy(pid) /\ ~opts.noserver THEN TRUE ELSE opts.noserver
    IN  IF noserver
        THEN [raised |-> FALSE, argv |-> NoneArgv,
              restart |-> rfiles, logs |-> lfiles]
        ELSE [raised |-> FALSE,
              argv |-> IF opts.iserver THEN Del(DefaultServerArgv, 2)
                                       ELSE DefaultServerArgv,
              restart |-> rfiles,
              logs |-> cycle_logfile(lfiles, SERVER_LOGFILE)]

\* main_server that does not look at the pid file.
main_server_NoPidCheck(opts, rfiles, pfiles, lfiles) ==
    IF opts.noserver
    THEN [raised |-> FALSE, argv |-> NoneArgv,
          restart |-> rfiles, logs |-> lfiles]
    ELSE IF ~CanWrite(SERVER_RESTART)
    THEN [raised |-> TRUE, argv |-> DefaultServerArgv,
          restart |-> rfiles, logs |-> lfiles]
    ELSE [raised |-> FALSE,
          argv |-> IF opts.iserver THEN Del(DefaultServerArgv, 2)
                                   ELSE DefaultServerArgv,
          restart |-> set_restart_mode(rfiles, SERVER_RESTART, TRUE),
          logs |-> cycle_logfile(lfiles, SERVER_LOGFILE)]

\* The "# Server" block of main.  Gives what the block leaves behind:
\* raised (set_restart_mode threw IOError), the argv, the flag files, the logs.
main_server(opts, rfiles, pfiles, lfiles) ==
    LET pid == get_pid(pfiles, SERVER_PIDFILE)
        noserver == IF Truthy(pid) /\ ~opts.noserver THEN TRUE ELSE opts.noserver
    IN  IF noserver
        THEN [raised |-> FALSE, argv |-> NoneArgv,
              restart |-> rfiles, logs |-> lfiles]
        ELSE IF ~CanWrite(SERVER_RESTART)
        THEN [raised |-> TRUE, argv |-> DefaultServerArgv,
              restart |-> rfiles, logs |-> lfiles]
        ELSE [raised |-> FALSE,
              argv |-> IF opts.iserver THEN Del(DefaultServerArgv, 2)
                                       ELSE DefaultServerArgv,
              restart |-> set_restart_mode(rfiles, SERVER_RESTART, TRUE),
              logs |-> cycle_logfile(lfiles, SERVER_LOGFILE)]

\* main_portal that writes the flag True whatever --iportal says.
main_portal_AlwaysInteractive(opts, rfiles, pfiles, lfiles) ==
    LET pid == get_pid(pfiles, PORTAL_PIDFILE)
        noportal == IF Truthy(pid) /\ ~opts.noportal THEN TRUE ELSE opts.noportal
    IN  IF noportal
        THEN [raised |-> FALSE, argv |-> NoneArgv,
              restart |-> rfiles, logs |-> lfiles]
        ELSE IF ~CanWrite(PORTAL_RESTART)
        THEN [raised |-> TRUE, argv |-> DefaultPortalArgv,
              restart |-> rfiles, logs |-> lfiles]
        ELSE [raised |-> FALSE,
              argv |-> IF opts.iportal
                       THEN [DefaultPortalArgv EXCEPT ![2] = "--nodaemon"]
                       ELSE DefaultPortalArgv,
              restart |-> set_restart_mode(rfiles, PORTAL_RESTART, TRUE),
              logs |-> cycle_logfile(lfiles, PORTAL_LOGFILE)]

\* main_portal that writes the flag for --iportal only and leaves the file
\* alone for a daemon portal.
main_portal_NoDaemonFlagWrite(opts, rfiles, pfiles, lfiles) ==
    LET pid == get_pid(pfiles, PORTAL_PIDFILE)
        noportal == IF Truthy(pid) /\ ~opts.noportal THEN TRUE ELSE opts.noportal
    IN  IF noportal
        THEN [raised |-> FALSE, argv |-> NoneArgv,
              restart |-> rfiles, logs |-> lfiles]
        ELSE IF ~CanWrite(PORTAL_RESTART)
        THEN [raised |-> TRUE, argv |-> DefaultPortalArgv,
              restart |-> rfiles, logs |-> lfiles]
        ELSE [raised |-> FALSE,
              argv |-> IF opts.iportal
                       THEN [DefaultPortalArgv EXCEPT ![2] = "--nodaemon"]
                       ELSE DefaultPortalArgv,
              restart |-> IF opts.iportal
                          THEN set_restart_mode(rfiles, PORTAL_RESTART, TRUE)
                          ELSE rfiles,
              logs |-> cycle_logfile(lfiles, PORTAL_LOGFILE)]

\* The "# Portal" block of main, same shape as main_server.
main_portal(opts, rfiles, pfiles, lfiles) ==
    LET pid == get_pid(pfiles, PORTAL_PIDFILE)
        noportal == IF Truthy(pid) /\ ~opts.noportal THEN TRUE ELSE opts.noportal
    IN  IF noportal
        THEN [raised |-> FALSE, argv |-> NoneArgv,
              restart |-> rfiles, logs |-> lfiles]
        ELSE IF ~CanWrite(PORTAL_RESTART)
        THEN [raised |-> TRUE, argv |-> DefaultPortalArgv,
              restart |-> rfiles, logs |-> lfiles]
        ELSE [raised |-> FALSE,
              argv |-> IF opts.iportal
                       THEN [DefaultPortalArgv EXCEPT ![2] = "--nodaemon"]
                       ELSE DefaultPortalArgv,
              restart |-> set_restart_mode(rfiles, PORTAL_RESTART, opts.iportal),
              logs |-> cycle_logfile(lfiles, PORTAL_LOGFILE)]

\* main() from parse_args to the call of start_services.  Without the
\* positional argument "start" it prints the help and calls sys.exit().
\* An IOError of set_restart_mode is caught nowhere and ends the runner.
main ==
    /\ pc = "main"
    /\ IF args = << >> \/ args[1] # "start"
       THEN /\ pc' = "exited"
            /\ exit_status' = 0
            /\ UNCHANGED <<restart, logs, server_argv, portal_argv>>
       ELSE LET s == main_server(options, restart, pidfiles, logs)
                p == main_portal(options, s.restart, pidfiles, s.logs)
            IN  IF s.raised
                THEN /\ pc' = "IOError"
                     /\ exit_status' = 1
                     /\ UNCHANGED <<restart, logs, server_argv, portal_argv>>
                ELSE IF p.raised
                THEN /\ pc' = "IOError"
                     /\ exit_status' = 1
                     /\ restart' = s.restart
                     /\ logs' = s.logs
                     /\ UNCHANGED <<server_argv, portal_argv>>
                ELSE /\ pc' = "start_services"
                     /\ restart' = p.restart
                     /\ logs' = p.logs
                     /\ server_argv' = WindowsFix(s.argv)
                     /\ portal_argv' = WindowsFix(p.argv)
                     /\ UNCHANGED exit_status
    /\ UNCHANGED <<os_name, args, options, unwritable, pidfiles, SERVER, PORTAL,
                   processes, waiter, daemon, launches, removed, last>>
    /\ UNCHANGED <<call, written, clean_exits, events>>

\* ------------------------------------------------------------------------
\* start_services(): launching, and the reload loop
\* ------------------------------------------------------------------------

\* "if x:" on an argv list.
Given(argv) == argv # NoneArgv

\* Does the argv hand twistd this option?
HasOption(argv, opt) == \E i \in DOMAIN argv : argv[i] = opt

\* twistd, once started, records its pid in the --pidfile it was given.
RecordPid(files, argv, n) ==
    IF HasOption(argv, "--pidfile")
    THEN [files EXCEPT ![PidFile(n)] = NewPid]
    ELSE files

\* thread.start_new_thread(<name>_waiter, (processes,)) seen from the
\* waiter table: the name gets a fresh thread that has not called Popen yet.
start_new_thread(w, n) == [w EXCEPT ![n] = "started"]

\* The daemon-portal branch without its return.
NoServerRunning_NoReturn(srv) == FALSE

\* "if not SERVER:" (runner.py:170): is the daemon-portal branch left through
\* its return?
NoServerRunning(srv) == srv = None

\* The part of start_services before the loop (runner.py:159-172).
\* popen_ok: whether the bare Popen(portal_argv) of the daemon branch
\* succeeds; when it raises, the exception leaves start_services and main.
start_services ==
    /\ pc = "start_services"
    /\ \E popen_ok \in BOOLEAN :
        LET srv == IF Given(server_argv) THEN "thread" ELSE SERVER
            w1 == IF Given(server_argv) THEN start_new_thread(waiter, "server")
                                        ELSE waiter
            l1 == IF Given(server_argv)
                  THEN [launches EXCEPT !["server"] = @ + 1] ELSE launches
            interactive == get_restart_mode(restart, PORTAL_RESTART)
        IN  /\ SERVER' = srv
            /\ IF ~Given(portal_argv)
               THEN /\ popen_ok
                    /\ pc' = "loop"
                    /\ waiter' = w1
                    /\ launches' = l1
                    /\ UNCHANGED <<PORTAL, daemon, exit_status, pidfiles>>
               ELSE IF interactive
               THEN /\ popen_ok
                    /\ pc' = "loop"
                    /\ PORTAL' = "thread"
                    /\ waiter' = start_new_thread(w1, "portal")
                    /\ launches' = [l1 EXCEPT !["portal"] = @ + 1]
                    /\ UNCHANGED <<daemon, exit_status, pidfiles>>
               ELSE IF ~popen_ok
               THEN /\ pc' = "OSError"
                    /\ exit_status' = 1
                    /\ waiter' = w1
                    /\ launches' = l1
                    /\ UNCHANGED <<PORTAL, daemon, pidfiles>>
               ELSE /\ PORTAL' = "popen"
                    /\ daemon' = "running"
                    /\ pidfiles' = RecordPid(pidfiles, portal_argv, "portal")
                    /\ waiter' = w1
                    /\ launches' = l1
                    /\ IF NoServerRunning(srv)
                       THEN pc' = "returned" /\ exit_status' = 0
                       ELSE pc' = "loop" /\ UNCHANGED exit_status
    /\ UNCHANGED <<os_name, args, options, restart, unwritable, logs,
                   server_argv, portal_argv, processes, removed, last>>
    /\ UNCHANGED <<call, written, clean_exits, events>>

\* The restart test without the look at which process stopped.
RestartsOn_AnyMessage(message, rc, files, n) ==
    /\ rc = 0
    /\ get_restart_mode(files, RestartFile(n))

\* The restart test without the exit code.
RestartsOn_AnyExitCode(message, rc, files, n) ==
    /\ message = Message(n)
    /\ get_restart_mode(files, RestartFile(n))

\* The restart test without the flag file.
RestartsOn_AnyFlag(message, rc, files, n) ==
    /\ message = Message(n)
    /\ rc = 0

\* The condition of one "restart only if process stopped cleanly" test of
\* the loop for name n (runner.py:181 and 187).
RestartsOn(message, rc, files, n) ==
    /\ message = Message(n)
    /\ rc = 0
    /\ get_restart_mode(files, RestartFile(n))

\* The test with get_restart_mode ahead of the exit code.
ReadsOn_FlagFirst(message, rc, n) ==
    IF message = Message(n) THEN <<RestartFile(n)>> ELSE << >>

\* The test with get_restart_mode ahead of the message.
ReadsOn_AnyMessage(message, rc, n) ==
    IF rc = 0 THEN <<RestartFile(n)>> ELSE << >>

\* The flag files one such test opens: the "and" chain reaches
\* get_restart_mode only after the message and the exit code matched.
ReadsOn(message, rc, n) ==
    IF message = Message(n) /\ rc = 0 THEN <<RestartFile(n)>> ELSE << >>

\* The name a message speaks of.
NameOf(message) == IF message = "server_stopped" THEN "server" ELSE "portal"

\* The books of processes.get(): one more message of the name taken, and one
\* more clean one when its exit code is 0 and its flag file reads True.
Got(ev, message, rc, files) ==
    LET n == NameOf(message)
    IN  [ev EXCEPT ![n].got = @ + 1,
                   ![n].got_clean =
                       IF rc = 0 /\ get_restart_mode(files, RestartFile(n))
                       THEN @ + 1 ELSE @]

\* The loop with the flag taken back to False once it has been honoured.
reload_loop_ConsumesFlag ==
    /\ pc = "loop"
    /\ processes # << >>
    /\ LET message == Head(processes)[1]
           rc == Head(processes)[2]
           srv == RestartsOn(message, rc, restart, "server")
           ptl == ~srv /\ RestartsOn(message, rc, restart, "portal")
           reads == ReadsOn(message, rc, "server")
                    \o (IF srv THEN << >> ELSE ReadsOn(message, rc, "portal"))
       IN  /\ processes' = Tail(processes)
           /\ IF srv
              THEN /\ SERVER' = "thread"
                   /\ waiter' = start_new_thread(waiter, "server")
                   /\ launches' = [launches EXCEPT !["server"] = @ + 1]
                   /\ last' = [message |-> message, rc |-> rc, reads |-> reads,
                               printed |-> "Evennia Server stopped. Restarting ...",
                               restarted |-> "server"]
                   /\ restart' = set_restart_mode(restart, SERVER_RESTART, FALSE)
                   /\ UNCHANGED <<PORTAL, pc, exit_status, removed>>
              ELSE IF ptl
              THEN /\ PORTAL' = "thread"
                   /\ waiter' = start_new_thread(waiter, "portal")
                   /\ launches' = [launches EXCEPT !["portal"] = @ + 1]
                   /\ last' = [message |-> message, rc |-> rc, reads |-> reads,
                               printed |-> "Evennia Portal stopped in interactive mode. Restarting ...",
                               restarted |-> "portal"]
                   /\ restart' = set_restart_mode(restart, PORTAL_RESTART, FALSE)
                   /\ UNCHANGED <<SERVER, pc, exit_status, removed>>
              ELSE /\ pc' = "returned"
                   /\ exit_status' = 0
                   /\ removed' = [removed EXCEPT ![NameOf(message)] =
                                     IF rc # 0 THEN "crashed" ELSE "stopped"]
                   /\ last' = [message |-> message, rc |-> rc, reads |-> reads,
                               printed |-> None, restarted |-> None]
                   /\ UNCHANGED <<SERVER, PORTAL, waiter, launches, restart>>
    /\ UNCHANGED <<os_name, args, options, unwritable, pidfiles, logs,
                   server_argv, portal_argv, daemon>>
    /\ events' = Got(events, Head(processes)[1], Head(processes)[2], restart)
    /\ UNCHANGED <<call, written, clean_exits>>

\* One iteration of the "while True" loop (runner.py:175-191): take a
\* message off the queue (blocks while the queue is empty), restart the
\* server or the portal and go round again, or break and so return.
reload_loop ==
    /\ pc = "loop"
    /\ processes # << >>
    /\ LET message == Head(processes)[1]
           rc == Head(processes)[2]
           srv == RestartsOn(message, rc, restart, "server")
           ptl == ~srv /\ RestartsOn(message, rc, restart, "portal")
           reads == ReadsOn(message, rc, "server")
                    \o (IF srv THEN << >> ELSE ReadsOn(message, rc, "portal"))
       IN  /\ processes' = Tail(processes)
           /\ IF srv
              THEN /\ SERVER' = "thread"
                   /\ waiter' = start_new_thread(waiter, "server")
                   /\ launches' = [launches EXCEPT !["server"] = @ + 1]
                   /\ last' = [message |-> message, rc |-> rc, reads |-> reads,
                               printed |-> "Evennia Server stopped. Restarting ...",
                               restarted |-> "server"]
                   /\ UNCHANGED <<PORTAL, pc, exit_status, removed>>
              ELSE IF ptl
              THEN /\ PORTAL' = "thread"
                   /\ waiter' = start_new_thread(waiter, "portal")
                   /\ launches' = [launches EXCEPT !["portal"] = @ + 1]
                   /\ last' = [message |-> message, rc |-> rc, reads |-> reads,
                               printed |-> "Evennia Portal stopped in interactive mode. Restarting ...",
                               restarted |-> "portal"]
                   /\ UNCHANGED <<SERVER, pc, exit_status, removed>>
              ELSE /\ pc' = "returned"
                   /\ exit_status' = 0
                   /\ removed' = [removed EXCEPT ![NameOf(message)] =
                                     IF rc # 0 THEN "crashed" ELSE "stopped"]
                   /\ last' = [message |-> message, rc |-> rc, reads |-> reads,
                               printed |-> None, restarted |-> None]
                   /\ UNCHANGED <<SERVER, PORTAL, waiter, launches>>
    /\ UNCHANGED <<os_name, args, options, restart, unwritable, pidfiles, logs,
                   server_argv, portal_argv, daemon>>
    /\ events' = Got(events, Head(processes)[1], Head(processes)[2], restart)
    /\ UNCHANGED <<call, written, clean_exits>>

\* ------------------------------------------------------------------------
\* The waiter threads (server_waiter / portal_waiter)
\* ------------------------------------------------------------------------

Argv(n) == IF n = "server" THEN server_argv ELSE portal_argv

\* What a waiter thread does when Popen(argv) raised: the except clause
\* prints the error, and the queue.put that follows evaluates the local rc,
\* which was never bound, so the thread ends in an UnboundLocalError before
\* anything is put on the queue.
AfterPopenError(q, n) == q

\* Popen(argv) succeeded: the process runs and the thread blocks in wait().
\* twistd records its pid in the --pidfile it was given.
waiter_popen(n) ==
    /\ waiter[n] = "started"
    /\ waiter' = [waiter EXCEPT ![n] = "waiting"]
    /\ pidfiles' = RecordPid(pidfiles, Argv(n), n)
    /\ UNCHANGED <<os_name, args, options, restart, unwritable, logs, pc, exit_status,
                   server_argv, portal_argv, SERVER, PORTAL, processes, daemon,
                   launches, removed, last>>
    /\ UNCHANGED <<call, written, clean_exits, events>>

\* Popen(argv) raised (runner.py:146-150 with the exception taken).
waiter_popen_error(n) ==
    /\ waiter[n] = "started"
    /\ waiter' = [waiter EXCEPT ![n] = "died"]
    /\ processes' = AfterPopenError(processes, n)
    /\ UNCHANGED <<os_name, args, options, restart, unwritable, pidfiles, logs, pc,
                   exit_status, server_argv, portal_argv, SERVER, PORTAL,
                   daemon, launches, removed, last>>
    /\ UNCHANGED <<call, written, clean_exits, events>>

\* The process ended with exit code rc: wait() returns and the thread puts
\* (message, rc) on the queue.  The environment is bounded here: it does not
\* ask for an incarnation beyond MaxLaunch.
waiter_put(n, rc) ==
    /\ waiter[n] = "waiting"
    /\ (rc = 0 /\ get_restart_mode(restart, RestartFile(n)))
          => launches[n] < MaxLaunch
    /\ waiter' = [waiter EXCEPT ![n] = "finished"]
    /\ processes' = Append(processes, <<Message(n), rc>>)
    /\ UNCHANGED <<os_name, args, options, restart, unwritable, pidfiles, logs, pc,
                   exit_status, server_argv, portal_argv, SERVER, PORTAL,
                   daemon, launches, removed, last>>
    /\ clean_exits' = IF rc = 0 /\ get_restart_mode(restart, RestartFile(n))
                      THEN [clean_exits EXCEPT ![n] = @ + 1]
                      ELSE clean_exits
    /\ events' = [events EXCEPT ![n].put = @ + 1]
    /\ UNCHANGED <<call, written>>

\* ------------------------------------------------------------------------
\* The launched processes
\* ------------------------------------------------------------------------

\* Is a process of this name, launched by this runner, alive?
Running(n) == waiter[n] = "waiting" \/ (n = "portal" /\ daemon = "running")

\* A running Server or Portal rewrites its own flag file before it exits
\* (reload: True, shutdown: False).
process_sets_flag(n, flag) ==
    /\ Running(n)
    /\ CanWrite(RestartFile(n))
    /\ restart' = set_restart_mode(restart, RestartFile(n), flag)
    /\ restart' # restart
    /\ UNCHANGED <<os_name, args, options, unwritable, pidfiles, logs, pc, exit_status,
                   server_argv, portal_argv, SERVER, PORTAL, processes, waiter,
                   daemon, launches, removed, last>>
    /\ UNCHANGED <<call, written, clean_exits, events>>

\* The portal started as a daemon ends; nothing in the runner waits for it.
daemon_exits ==
    /\ daemon = "running"
    /\ daemon' = "exited"
    /\ UNCHANGED <<os_name, args, options, restart, unwritable, pidfiles, logs, pc,
                   exit_status, server_argv, portal_argv, SERVER, PORTAL,
                   processes, waiter, launches, removed, last>>
    /\ UNCHANGED <<call, written, clean_exits, events>>

\* ------------------------------------------------------------------------
\* Specification
\* ------------------------------------------------------------------------

\* Log directories the runner may find: every log (and its .old sibling)
\* either missing or holding its own earlier output, named after the path.
LogInputs ==
    {[f \in LogPaths |-> IF f \in present THEN f ELSE Absent] :
        present \in {{}, LogFiles, LogPaths, {SERVER_LOGFILE, Old(PORTAL_LOGFILE)},
                     {Old(SERVER_LOGFILE), PORTAL_LOGFILE, HTTP_LOG_FILE}}}

\* No function has been called directly.
NoCall == [op |-> None, file |-> None, flag |-> None, result |-> None,
           before |-> None]

Init ==
    /\ os_name \in OsInputs
    /\ args \in ArgsInputs
    /\ options \in OptionsInputs
    /\ restart \in [RestartFiles -> FlagInputs]
    /\ unwritable \in SUBSET RestartFiles
    /\ pidfiles \in [PidFiles -> PidInputs]
    /\ logs \in LogInputs
    /\ pc = "main"
    /\ exit_status = -1
    /\ server_argv = DefaultServerArgv
    /\ portal_argv = DefaultPortalArgv
    /\ SERVER = None
    /\ PORTAL = None
    /\ processes = << >>
    /\ waiter = [n \in Names |-> "none"]
    /\ daemon = "none"
    /\ launches = [n \in Names |-> 0]
    /\ removed = [n \in Names |-> "no"]
    /\ last = [message |-> None, rc |-> -1, reads |-> << >>,
               printed |-> None, restarted |-> None]
    /\ call = NoCall
    /\ written = [f \in RestartFiles |-> "never"]
    /\ clean_exits = [n \in Names |-> 0]
    /\ events = [n \in Names |-> [put |-> 0, got |-> 0, got_clean |-> 0]]

Next ==
    \/ main
    \/ start_services
    \/ reload_loop
    \/ \E n \in Names : waiter_popen(n)
    \/ \E n \in Names : waiter_popen_error(n)
    \/ \E n \in Names, rc \in ExitCodes : waiter_put(n, rc)
    \/ \E n \in Names, flag \in BOOLEAN : process_sets_flag(n, flag)
    \/ daemon_exits

Spec == Init /\ [][Next]_vars

\* ------------------------------------------------------------------------
\* The functions called on their own, on any file system
\* ------------------------------------------------------------------------

\* Every log directory: each of the six paths missing or present.
AllLogInputs ==
    {[f \in LogPaths |-> IF f \in present THEN f ELSE Absent] :
        present \in SUBSET LogPaths}

\* What the flag written last is read back as, for the written table.
Written(flag) == IF flag THEN "true" ELSE "false"

\* set_restart_mode(restart_file, flag) is called; it raises IOError and
\* writes nothing when the file cannot be opened for writing.
call_set_restart_mode(restart_file, flag) ==
    /\ pc = "calls"
    /\ IF CanWrite(restart_file)
       THEN /\ restart' = set_restart_mode(restart, restart_file, flag)
            /\ written' = [written EXCEPT ![restart_file] = Written(flag)]
            /\ call' = [op |-> "set_restart_mode", file |-> restart_file,
                        flag |-> str(flag), result |-> None, before |-> None]
       ELSE /\ call' = [op |-> "set_restart_mode", file |-> restart_file,
                        flag |-> str(flag), result |-> "IOError",
                        before |-> None]
            /\ UNCHANGED <<restart, written>>
    /\ UNCHANGED <<os_name, args, options, unwritable, pidfiles, logs, pc, exit_status,
                   server_argv, portal_argv, SERVER, PORTAL, processes, waiter,
                   daemon, launches, removed, last>>
    /\ UNCHANGED <<clean_exits, events>>

\* get_restart_mode(restart_file) is called; result holds what it returns.
call_get_restart_mode(restart_file) ==
    /\ pc = "calls"
    /\ call' = [op |-> "get_restart_mode", file |-> restart_file,
                flag |-> None,
                result |-> str(get_restart_mode(restart, restart_file)),
                before |-> None]
    /\ UNCHANGED <<os_name, args, options, restart, unwritable, pidfiles, logs, pc,
                   exit_status, server_argv, portal_argv, SERVER, PORTAL,
                   processes, waiter, daemon, launches, removed, last, written>>
    /\ UNCHANGED <<clean_exits, events>>

\* get_pid(pidfile) is called; result holds what it returns.
call_get_pid(pidfile) ==
    /\ pc = "calls"
    /\ call' = [op |-> "get_pid", file |-> pidfile, flag |-> None,
                result |-> get_pid(pidfiles, pidfile), before |-> None]
    /\ UNCHANGED <<os_name, args, options, restart, unwritable, pidfiles, logs, pc,
                   exit_status, server_argv, portal_argv, SERVER, PORTAL,
                   processes, waiter, daemon, launches, removed, last, written>>
    /\ UNCHANGED <<clean_exits, events>>

\* cycle_logfile(logfile) is called; before keeps the log directory it found.
call_cycle_logfile(logfile) ==
    /\ pc = "calls"
    /\ logs' = cycle_logfile(logs, logfile)
    /\ call' = [op |-> "cycle_logfile", file |-> logfile, flag |-> None,
                result |-> None, before |-> logs]
    /\ UNCHANGED <<os_name, args, options, restart, unwritable, pidfiles, pc,
                   exit_status, server_argv, portal_argv, SERVER, PORTAL,
                   processes, waiter, daemon, launches, removed, last, written>>
    /\ UNCHANGED <<clean_exits, events>>

InitCalls ==
    /\ os_name = "posix"
    /\ args = <<"start">>
    /\ options = [noserver |-> FALSE, noportal |-> FALSE,
                  iserver |-> FALSE, iportal |-> FALSE]
    /\ restart \in [RestartFiles -> FlagInputs]
    /\ unwritable \in SUBSET RestartFiles
    /\ pidfiles \in [PidFiles -> PidInputs]
    /\ logs \in AllLogInputs
    /\ pc = "calls"
    /\ exit_status = -1
    /\ server_argv = DefaultServerArgv
    /\ portal_argv = DefaultPortalArgv
    /\ SERVER = None
    /\ PORTAL = None
    /\ processes = << >>
    /\ waiter = [n \in Names |-> "none"]
    /\ daemon = "none"
    /\ launches = [n \in Names |-> 0]
    /\ removed = [n \in Names |-> "no"]
    /\ last = [message |-> None, rc |-> -1, reads |-> << >>,
               printed |-> None, restarted |-> None]
    /\ call = NoCall
    /\ written = [f \in RestartFiles |-> "never"]
    /\ clean_exits = [n \in Names |-> 0]
    /\ events = [n \in Names |-> [put |-> 0, got |-> 0, got_clean |-> 0]]

NextCalls ==
    \/ \E f \in RestartFiles, flag \in BOOLEAN : call_set_restart_mode(f, flag)
    \/ \E f \in RestartFiles : call_get_restart_mode(f)
    \/ \E f \in PidFiles : call_get_pid(f)
    \/ \E f \in LogFiles : call_cycle_logfile(f)

SpecCalls == InitCalls /\ [][NextCalls]_vars

\* ------------------------------------------------------------------------
\* Properties
\* ------------------------------------------------------------------------

\* Has this runner launched a process of this name (waited on or not)?
Launched(n) == launches[n] > 0 \/ (n = "portal" /\ daemon # "none")

\* Did the operator switch the process off (--noserver / --noportal)?
Disabled(n) == IF n = "server" THEN options.noserver ELSE options.noportal

\* The loop is about to take a message of n off the queue.
AtMessageOf(n) ==
    /\ pc = "loop"
    /\ processes # << >>
    /\ Head(processes)[1] = Message(n)

\* C1: once the loop takes a message with a non-zero exit code for a name,
\* no waiter thread is started for that name again, in that iteration or in
\* any later step, whatever the name's flag file holds.
C1_CrashIsNeverRelaunched ==
    [][\A n \in Names :
          ((AtMessageOf(n) /\ Head(processes)[2] # 0) \/ removed[n] = "crashed")
             => /\ launches'[n] = launches[n]
                /\ (removed[n] = "crashed" => removed'[n] = "crashed")]_vars

\* C1 witness: a crash message was consumed while the flag file said True.
C1_Witness ==
    \E n \in Names :
        /\ removed[n] = "crashed"
        /\ last.message = Message(n) /\ last.rc # 0
        /\ restart[RestartFile(n)] = "True"
        /\ launches[n] >= 1

\* C2 (as claimed): a clean exit under a True flag is always followed by a
\* relaunch, so no message (name, 0) of a name whose flag reads True is left
\* on the queue by a loop that has returned.
C2_CleanExitWithIntentIsRelaunched ==
    \A n \in Names :
        ~ /\ pc = "returned"
          /\ \E i \in DOMAIN processes : processes[i] = <<Message(n), 0>>
          /\ get_restart_mode(restart, RestartFile(n))

\* C3: when the loop takes a message with exit code 0 for a name whose flag
\* does not read True, the name is given up for good and no waiter thread is
\* started for it again.
C3_CleanStopIsNeverRelaunched ==
    [][\A n \in Names :
          /\ (/\ AtMessageOf(n) /\ Head(processes)[2] = 0
              /\ ~get_restart_mode(restart, RestartFile(n)))
                => /\ launches'[n] = launches[n]
                   /\ (processes' = Tail(processes) => removed'[n] = "stopped")
          /\ removed[n] = "stopped"
                => /\ launches'[n] = launches[n]
                   /\ removed'[n] = "stopped"]_vars

\* C3 witness: a clean exit was consumed while the flag file said False.
C3_Witness ==
    \E n \in Names :
        /\ removed[n] = "stopped"
        /\ last.message = Message(n) /\ last.rc = 0
        /\ restart[RestartFile(n)] = "False"

\* C4 (as claimed): start_services returns from the loop only when every
\* process it launched with a waiter has reached a final outcome; none is
\* still starting, running, or waiting on the queue for its decision.
C4_ReturnsOnlyWhenDrained ==
    (pc = "returned" /\ last.message # None)
        => \A n \in Names : launches[n] > 0 => removed[n] # "no"

\* C5 (as claimed): with server_argv and portal_argv both None,
\* start_services never sits in the loop waiting on the queue.
C5_NothingMonitoredNeverBlocks ==
    ~(pc = "loop" /\ ~Given(server_argv) /\ ~Given(portal_argv))

\* C6: with the portal started as a daemon and no server_argv,
\* start_services has returned, no waiter thread exists, and no message was
\* ever put on or taken off the queue.
C6_DaemonPortalAloneReturns ==
    (daemon # "none" /\ ~Given(server_argv))
        => /\ pc = "returned"
           /\ last.message = None
           /\ processes = << >>
           /\ \A n \in Names : launches[n] = 0 /\ waiter[n] = "none"

\* C6 witness: the daemon portal runs and start_services has returned.
C6_Witness ==
    /\ daemon = "running"
    /\ PORTAL = "popen"
    /\ ~Given(server_argv)
    /\ pc = "returned"

\* C7 (as claimed): a waiter thread whose Popen raised has delivered a
\* message with a non-zero exit code for its name.
C7_LaunchFailureDeliversEvent ==
    \A n \in Names :
        waiter[n] = "died"
            => \/ \E i \in DOMAIN processes :
                     processes[i][1] = Message(n) /\ processes[i][2] # 0
               \/ removed[n] = "crashed"

\* C8 (as claimed): an IOError of set_restart_mode never ends the runner.
C8_FlagWriteFailureDoesNotAbort ==
    pc # "IOError"

\* The options with the name switched off by the operator.
Disable(opts, n) ==
    IF n = "server" THEN [opts EXCEPT !.noserver = TRUE]
                    ELSE [opts EXCEPT !.noportal = TRUE]

\* What main's block for the name leaves behind under these options.
MainBlock(opts, n) ==
    IF n = "server" THEN main_server(opts, restart, pidfiles, logs)
                    ELSE main_portal(opts, restart, pidfiles, logs)

\* The files of a name, and its not being launched, are left alone by a
\* step, and main treats the name as it treats a name that is switched off.
SkipFrame(n) ==
    /\ ~Launched(n)'
    /\ waiter'[n] = "none"
    /\ restart'[RestartFile(n)] = restart[RestartFile(n)]
    /\ pidfiles'[PidFile(n)] = pidfiles[PidFile(n)]
    /\ logs'[LogFile(n)] = logs[LogFile(n)]
    /\ logs'[Old(LogFile(n))] = logs[Old(LogFile(n))]
    /\ (pc = "main" /\ pc' = "start_services") => Argv(n)' = NoneArgv
    /\ pc = "main" => MainBlock(options, n) = MainBlock(Disable(options, n), n)
    /\ (pc = "main" /\ pc' = "IOError")
          => /\ ~Disabled(Other(n))
             /\ ~Truthy(get_pid(pidfiles, PidFile(Other(n))))
             /\ ~CanWrite(RestartFile(Other(n)))

\* C9 (as claimed): whenever the pid file of a process the operator did not
\* disable exists at startup, the runner never launches the process and
\* never changes its pid file, flag file or log files.
C9_PidFileSkipsLaunch ==
    [][\A n \in Names :
          (/\ args = <<"start">>
           /\ pidfiles[PidFile(n)] # Absent
           /\ ~Disabled(n)
           /\ ~Launched(n))
             => SkipFrame(n)]_vars

\* C9 (amended): whenever the pid file of a process the operator did not
\* disable holds a pid (is not empty) at startup, the runner never launches
\* the process, never changes its pid file, flag file or log files, and the
\* skip raises nothing: main can only stop on the other process's flag file.
C9_PidRecordSkipsLaunch ==
    [][\A n \in Names :
          (/\ args = <<"start">>
           /\ Truthy(get_pid(pidfiles, PidFile(n)))
           /\ ~Disabled(n)
           /\ ~Launched(n))
             => SkipFrame(n)]_vars

\* C9 witness: one process was skipped for its pid record, the other one
\* was launched by start_services.
C9_Witness ==
    \E n \in Names :
        /\ pidfiles[PidFile(n)] = "4242"
        /\ ~Disabled(n)
        /\ ~Launched(n)
        /\ Launched(Other(n))
        /\ pc \in {"loop", "returned"}

\* C10: get_restart_mode on a file that set_restart_mode wrote last returns
\* the flag that was written; on a missing file, and on any content other
\* than the exact text True, it returns False.
C10_FlagRoundTrip ==
    call.op = "get_restart_mode"
        => /\ written[call.file] = "true" => call.result = "True"
           /\ written[call.file] = "false" => call.result = "False"
           /\ restart[call.file] # "True" => call.result = "False"

\* C10 witness: a flag written as True was read back as True.
C10_Witness ==
    /\ call.op = "get_restart_mode"
    /\ written[call.file] = "true"
    /\ call.result = "True"

\* C11: after cycle_logfile(path) on a path that existed, path.old holds
\* what path held before the call (whatever path.old held is gone) and path
\* no longer exists.
C11_CycleMovesLogToOld ==
    (call.op = "cycle_logfile" /\ call.before[call.file] # Absent)
        => /\ logs[Old(call.file)] = call.before[call.file]
           /\ logs[call.file] = Absent

\* C11 witness: a log was cycled over an .old file that held other content.
C11_Witness ==
    /\ call.op = "cycle_logfile"
    /\ call.before[call.file] # Absent
    /\ call.before[Old(call.file)] # Absent
    /\ call.before[Old(call.file)] # call.before[call.file]
    /\ logs[Old(call.file)] = call.before[call.file]

\* C12 (as claimed): cycle_logfile(path) on a path that does not exist
\* changes no file at all.
C12_CycleOfMissingLogChangesNothing ==
    (call.op = "cycle_logfile" /\ call.before[call.file] = Absent)
        => logs = call.before

\* C12 (amended): cycle_logfile(path) on a path that does not exist changes
\* neither path nor path.old nor any other log, except the HTTP log, which
\* it moves to its .old sibling when it exists.
C12_CycleOfMissingLogRotatesHttpOnly ==
    (call.op = "cycle_logfile" /\ call.before[call.file] = Absent)
        => /\ \A f \in LogPaths \ {HTTP_LOG_FILE, Old(HTTP_LOG_FILE)} :
                 logs[f] = call.before[f]
           /\ IF call.before[HTTP_LOG_FILE] # Absent
              THEN /\ logs[Old(HTTP_LOG_FILE)] = call.before[HTTP_LOG_FILE]
                   /\ logs[HTTP_LOG_FILE] = Absent
              ELSE /\ logs[Old(HTTP_LOG_FILE)] = call.before[Old(HTTP_LOG_FILE)]
                   /\ logs[HTTP_LOG_FILE] = Absent

\* C12 witness: a missing log was cycled while its .old file and the HTTP
\* log existed; the .old file stayed and the HTTP log was moved.
C12_Witness ==
    /\ call.op = "cycle_logfile"
    /\ call.file # HTTP_LOG_FILE
    /\ call.before[call.file] = Absent
    /\ call.before[Old(call.file)] # Absent
    /\ call.before[HTTP_LOG_FILE] # Absent
    /\ logs[Old(HTTP_LOG_FILE)] = call.before[HTTP_LOG_FILE]

\* C13 (as claimed): a runner called without the positional argument
\* "start" launches nothing, writes no flag file, and ends with a non-zero
\* exit status.
C13_UsageExitsNonZero ==
    pc = "exited"
        => /\ exit_status # 0
           /\ \A n \in Names : ~Launched(n)

C15_DaemonPortalServerStopReturns ==
    [][/\ daemon' # "none"
          => /\ launches'["portal"] = 0
             /\ waiter'["portal"] = "none"
             /\ last'.message # "portal_stopped"
             /\ \A i \in DOMAIN processes' : processes'[i][1] # "portal_stopped"
       /\ (/\ daemon # "none"
           /\ AtMessageOf("server")
           /\ Head(processes)[2] = 0
           /\ ~get_restart_mode(restart, SERVER_RESTART)
           /\ processes' = Tail(processes))
          => /\ pc' = "returned"
             /\ launches' = launches
             /\ processes' = << >>
             /\ launches["server"] = 1 => last.message = None]_vars

\* C15 witness: the loop returned on the server's first and only message
\* while the daemon portal was still running.
C15_Witness ==
    /\ daemon = "running"
    /\ removed["server"] = "stopped"
    /\ restart[SERVER_RESTART] = "False"
    /\ launches["server"] = 1
    /\ pc = "returned"

\* C16: with no waiter thread for the portal, once the loop has consumed a
\* non-zero exit of the server it has returned, and the server was launched
\* exactly once more than it exited cleanly under a True flag: n clean exits
\* gave n relaunches and the crash gave none.
C16_CrashAfterReloadsReturns ==
    (launches["portal"] = 0 /\ removed["server"] = "crashed")
        => /\ launches["server"] = 1 + clean_exits["server"]
           /\ pc = "returned"
           /\ waiter["server"] = "finished"
           /\ processes = << >>

\* C16 witness: the server was reloaded at least once and then crashed.
C16_Witness ==
    /\ launches["portal"] = 0
    /\ removed["server"] = "crashed"
    /\ clean_exits["server"] >= 1
    /\ launches["server"] = 1 + clean_exits["server"]
    /\ pc = "returned"

\* C17: main leaves the flag file of every process it hands to
\* start_services written, True for the server and for a portal under
\* --iportal, False for a portal without it; the first waiter thread of a
\* name is started by start_services, after main, with the name's flag
\* reading True, and the daemon portal is started with its flag False.
C17_FlagWrittenBeforeFirstLaunch ==
    [][/\ \A n \in Names :
            (launches[n] = 0 /\ launches'[n] > 0)
               => pc = "start_services" /\ restart[RestartFile(n)] = "True"
       /\ (daemon = "none" /\ daemon' # "none")
            => pc = "start_services" /\ restart[PORTAL_RESTART] = "False"
       /\ (pc = "main" /\ pc' = "start_services")
            => /\ Given(server_argv') => restart'[SERVER_RESTART] = "True"
               /\ Given(portal_argv')
                    => restart'[PORTAL_RESTART] = str(options.iportal)]_vars

\* C17 witness: the server's first waiter thread has just been started and
\* the portal runs as a daemon, with the flags main wrote.
C17_Witness ==
    /\ launches["server"] = 1
    /\ waiter["server"] = "started"
    /\ restart[SERVER_RESTART] = "True"
    /\ daemon = "running"
    /\ restart[PORTAL_RESTART] = "False"

\* C18: a waiter thread for a name is started only when the name has no
\* live waiter thread and no running process; a thread after the first is
\* started only by the iteration that takes the name's own message off the
\* queue, and leaves no message of the name behind.  The queue never holds
\* two messages of one name, a queued message means the name's waiter has
\* finished, and the portal never has a waiter thread and a daemon at once.
C18_OneWaiterPerName ==
    [][\A n \in Names :
          /\ launches'[n] > launches[n]
                => /\ waiter[n] \in {"none", "finished"}
                   /\ ~Running(n)
                   /\ launches'[n] = launches[n] + 1
                   /\ launches[n] > 0
                         => AtMessageOf(n) /\ processes' = Tail(processes)
                   /\ \A i \in DOMAIN processes' :
                         processes'[i][1] # Message(n)
          /\ Cardinality({i \in DOMAIN processes' :
                             processes'[i][1] = Message(n)}) <= 1
          /\ (\E i \in DOMAIN processes' : processes'[i][1] = Message(n))
                => waiter'[n] = "finished"
          /\ ~(waiter'["portal"] \in {"started", "waiting"}
                  /\ daemon' = "running")]_vars

\* C18 witness: with both processes monitored, one was relaunched and runs
\* again while the other still runs its first incarnation.
C18_Witness ==
    \E n \in Names :
        /\ launches[n] = 2
        /\ waiter[n] = "waiting"
        /\ launches[Other(n)] = 1
        /\ waiter[Other(n)] = "waiting"

\* C19: an iteration of the loop reads the flag file of the process its
\* message names exactly once when the exit code is 0, reads no flag file
\* when the exit code is not 0, and never reads the other process's file.
C19_LoopReadsOwnFlagOnce ==
    last.message # None
        => last.reads =
              IF last.rc # 0 THEN << >>
              ELSE IF last.message = "server_stopped" THEN <<SERVER_RESTART>>
              ELSE <<PORTAL_RESTART>>

\* C19 witness: a clean exit of the portal was decided on portal.restart
\* alone while server.restart held True and the server ran.
C19_Witness ==
    /\ last.message = "portal_stopped"
    /\ last.rc = 0
    /\ last.reads = <<PORTAL_RESTART>>
    /\ restart[SERVER_RESTART] = "True"
    /\ waiter["server"] = "waiting"

\* C20: in the iteration that reads a name's flag file, the name has no
\* running process launched by this runner, and the name's latest waiter
\* thread is the one that has finished and whose message is being decided.
C20_FlagReadWhileNotRunning ==
    [][\A n \in Names :
          (/\ pc = "loop"
           /\ processes # << >>
           /\ processes' = Tail(processes)
           /\ \E i \in DOMAIN last'.reads : last'.reads[i] = RestartFile(n))
             => /\ ~Running(n)
                /\ waiter[n] = "finished"
                /\ Head(processes)[1] = Message(n)]_vars

\* C20 witness: the server's flag was read and the server restarted while
\* the portal, monitored too, kept running.
C20_Witness ==
    /\ last.reads = <<SERVER_RESTART>>
    /\ last.restarted = "server"
    /\ waiter["server"] = "started"
    /\ launches["server"] = 2
    /\ waiter["portal"] = "waiting"

\* The loop takes a message off the queue in this step.
LoopStep == pc = "loop" /\ processes # << >> /\ processes' = Tail(processes)

C22_DaemonPortalIsNeverMonitored ==
    [][/\ daemon' # "none"
          => /\ waiter'["portal"] = "none"
             /\ launches'["portal"] = 0
             /\ PORTAL' = "popen"
             /\ \A i \in DOMAIN processes' : processes'[i][1] # "portal_stopped"
             /\ last'.message # "portal_stopped"
             /\ last'.restarted # "portal"
       /\ daemon # "none" => daemon' \in {daemon, "exited"}]_vars

\* C22 witness: the daemon portal has ended after setting portal.restart to
\* True, and the loop has since relaunched the server.
C22_Witness ==
    /\ daemon = "exited"
    /\ restart[PORTAL_RESTART] = "True"
    /\ pc = "loop"
    /\ last.restarted = "server"
    /\ waiter["server"] = "waiting"

\* C23: whenever the latest iteration of the loop took a message with a
\* non-zero exit code, that iteration printed a message.
C23_CrashPrintsDiagnostic ==
    (last.message # None /\ last.rc # 0) => last.printed # None

\* C24: a monitored process whose exit with code 0 under a flag reading
\* True waits on the queue is always about to be relaunched: the loop is
\* still running, start_services has not returned.
C24_CleanExitLoopNeverReturns ==
    \A n \in Names :
        (/\ waiter[n] = "finished"
         /\ restart[RestartFile(n)] = "True"
         /\ \E i \in DOMAIN processes : processes[i] = <<Message(n), 0>>)
            => pc = "loop"

\* The messages of a name that sit on the queue.
Queued(n) == Cardinality({i \in DOMAIN processes : processes[i][1] = Message(n)})

\* C25: in every state, a name with a waiter thread has been launched once
\* more than the loop has taken messages of it with exit code 0 under a flag
\* reading True; every incarnation whose wait() returned has put exactly one
\* message; and every message put is on the queue or was taken once.
C25_LaunchesCountCleanEvents ==
    \A n \in Names :
        /\ launches[n] > 0 => launches[n] = 1 + events[n].got_clean
        /\ launches[n] = 0 => events[n] = [put |-> 0, got |-> 0, got_clean |-> 0]
        /\ events[n].put =
              launches[n] - (IF waiter[n] \in {"started", "waiting", "died"}
                             THEN 1 ELSE 0)
        /\ events[n].put = events[n].got + Queued(n)
        /\ events[n].got_clean <= events[n].got

\* C25 witness: the server was relaunched, crashed and was given up, while
\* the portal's clean exit under a True flag is left on the queue.
C25_Witness ==
    /\ launches["server"] = 2
    /\ events["server"] = [put |-> 2, got |-> 2, got_clean |-> 1]
    /\ launches["portal"] = 1
    /\ events["portal"] = [put |-> 1, got |-> 0, got_clean |-> 0]
    /\ restart[PORTAL_RESTART] = "True"
    /\ processes = << <<"portal_stopped", 0>> >>

\* What main leaves behind when it finds these flag files, everything else
\* being as it is: whether it raised, the two argv, the logs, the flag files.
MainOutcome(rfiles) ==
    LET s == main_server(options, rfiles, pidfiles, logs)
        p == main_portal(options, s.restart, pidfiles, s.logs)
    IN  [raised |-> s.raised \/ p.raised,
         server_argv |-> s.argv,
         portal_argv |-> p.argv,
         logs |-> IF s.raised THEN logs ELSE p.logs,
         restart |-> IF s.raised THEN rfiles ELSE p.restart]

\* The flag of a name whose argv main hands to start_services, as main
\* writes it from the options.
FlagFromOptions(n) == IF n = "server" THEN "True" ELSE str(options.iportal)

\* C26: what the flag files held before the run has no part in the run.
\* For any other contents of the two flag files, main raises or not alike,
\* builds the same argv, leaves the same logs and the same flag for every
\* process it launches; when start_services begins, the flag of every
\* process to launch holds what the options say; the portal gets a waiter
\* thread exactly when it is launched under --iportal; and the loop never
\* reads the flag of a name that was not launched.
C26_StaleFlagsHaveNoEffect ==
    /\ (pc = "main" /\ args # << >> /\ args[1] = "start")
          => \A other \in [RestartFiles -> FlagInputs] :
                LET a == MainOutcome(restart)
                    b == MainOutcome(other)
                IN  /\ a.raised = b.raised
                    /\ a.server_argv = b.server_argv
                    /\ a.portal_argv = b.portal_argv
                    /\ a.logs = b.logs
                    /\ ~a.raised
                          => \A n \in Names :
                                (IF n = "server" THEN Given(a.server_argv)
                                                 ELSE Given(a.portal_argv))
                                   => a.restart[RestartFile(n)]
                                         = b.restart[RestartFile(n)]
    /\ pc = "start_services"
          => \A n \in Names :
                Given(Argv(n)) => restart[RestartFile(n)] = FlagFromOptions(n)
    /\ pc \in {"loop", "returned", "OSError"}
          => /\ launches["portal"] > 0 <=> (Given(portal_argv) /\ options.iportal)
             /\ daemon # "none" => (Given(portal_argv) /\ ~options.iportal)
             /\ launches["server"] > 0 <=> Given(server_argv)
    /\ \A i \in DOMAIN last.reads :
          \E n \in Names : last.reads[i] = RestartFile(n) /\ Given(Argv(n))

\* C26 witness: the portal, launched without --iportal, runs as a daemon
\* under the False main wrote into portal.restart, and the loop has
\* relaunched the server.
C26_Witness ==
    /\ ~options.iportal
    /\ daemon = "running"
    /\ launches["portal"] = 0
    /\ restart[PORTAL_RESTART] = "False"
    /\ last.restarted = "server"
    /\ launches["server"] = 2

====
